---- MODULE Spec2Model ----
(***************************************************************************)
(* A model of wallpaper_rotator.py: the persisted rotation state, the      *)
(* folder scan, the next-index algorithm, order/reset operations and the   *)
(* two-tier wallpaper applier.                                             *)
(*                                                                         *)
(* Folder entries are numbered; the number is the entry's position in the  *)
(* lexicographic order of paths, so sorting a set of entries is sorting    *)
(* their numbers.  Entries 1..MaxEntries are regular files that come and   *)
(* go; entry 0 is the state file itself.                                   *)
(***************************************************************************)
EXTENDS Integers, Sequences, FiniteSets

VARIABLES folder, state_file, last, prev, run, applier, load_result, procs

vars == <<folder, state_file, last, prev, run, applier, load_result, procs>>

(***************************************************************************)
(* Bounds                                                                  *)
(***************************************************************************)
MaxEntries == 3

Entries == 1..MaxEntries

\* Longest run of consecutive sequential rotations that is counted.
MaxRun == MaxEntries + 2

(***************************************************************************)
(* The folder scan                                                         *)
(***************************************************************************)
supported_formats == {".jpg", ".jpeg", ".png", ".bmp", ".gif", ".tiff", ".webp"}

\* The state file lives in the wallpaper folder under the name
\* ".wallpaper_state.json", which sorts before every other entry.
StateFileEntry == 0

\* The suffixes of the folder's other entries, as written on disk.
SuffixCycle == <<".jpg", ".PNG", ".gif", ".webp", ".JPEG", ".bmp", ".tiff">>

\* Path.suffix
Suffix(e) ==
    IF e = StateFileEntry THEN ".json"
    ELSE SuffixCycle[((e - 1) % Len(SuffixCycle)) + 1]

\* str.lower() on the suffixes above.
Lower(s) ==
    CASE s = ".PNG" -> ".png"
      [] s = ".JPEG" -> ".jpeg"
      [] OTHER -> s

\* Ascending sequence of a finite set of entry numbers.
RECURSIVE SortedSeq(_)
SortedSeq(S) ==
    IF S = {} THEN <<>>
    ELSE LET m == CHOOSE x \in S : \A y \in S : x <= y
         IN <<m>> \o SortedSeq(S \ {m})

\* Faulty variant: the suffix check is left out.
get_image_files_unfiltered(entries) == SortedSeq(entries)

get_image_files(entries) ==
    SortedSeq({e \in entries : Lower(Suffix(e)) \in supported_formats})

(***************************************************************************)
(* The state file                                                          *)
(***************************************************************************)
\* Python's None, for last_wallpaper and for a rotation that returns nothing.
None_ == -1

default_state ==
    [current_index |-> -1,
     last_wallpaper |-> None_,
     image_count |-> 0,
     order |-> "sequential"]

\* dict.get(key, default)
Get(d, key, default) == IF key \in DOMAIN d THEN d[key] ELSE default

\* What is on disk at the state file's path.
Missing == [kind |-> "missing"]
InvalidJson == [kind |-> "invalid_json"]   \* empty, truncated or otherwise not JSON
Unreadable == [kind |-> "unreadable"]      \* open() for reading raises IOError
Undecodable == [kind |-> "undecodable"]    \* bytes the text decoder rejects
JsonObject(d) == [kind |-> "json", doc |-> d]

\* wallpaper_folder.iterdir(): the folder's entries, the state file among them
\* once it exists.
iterdir(dir, file) ==
    dir \cup (IF file.kind = "missing" THEN {} ELSE {StateFileEntry})

load_state(file) ==
    CASE file.kind = "missing" -> [raised |-> "none", value |-> default_state]
      [] file.kind = "json" -> [raised |-> "none", value |-> file.doc]
      [] file.kind = "invalid_json" -> [raised |-> "none", value |-> default_state]
      [] file.kind = "unreadable" -> [raised |-> "none", value |-> default_state]
      [] file.kind = "undecodable" ->
            [raised |-> "UnicodeDecodeError", value |-> default_state]

\* How one save_state call ends: the write succeeds, open() raises before the
\* file is touched, or open() has truncated the file and the write then raises.
SaveOutcomes == {"ok", "open_failed", "write_failed"}

save_state(file, state, outcome) ==
    CASE outcome = "ok" -> JsonObject(state)
      [] outcome = "open_failed" -> file
      [] outcome = "write_failed" -> InvalidJson

(***************************************************************************)
(* Dictionaries                                                            *)
(***************************************************************************)
\* d[key] = value on a Python dict
DictSet(d, key, value) ==
    [k \in DOMAIN d \cup {key} |-> IF k = key THEN value ELSE d[k]]

\* Faulty variant: the update leaves image_count as it was loaded.
Update_stalecount(state, next_index, next_wallpaper, count, order) ==
    DictSet(DictSet(DictSet(state,
        "current_index", next_index),
        "last_wallpaper", next_wallpaper),
        "order", order)

\* Faulty variant: the update leaves the order as it was loaded.
Update_keeporder(state, next_index, next_wallpaper, count, order) ==
    DictSet(DictSet(DictSet(state,
        "current_index", next_index),
        "last_wallpaper", next_wallpaper),
        "image_count", count)

\* state.update({...}) with the four keys get_next_wallpaper writes
Update(state, next_index, next_wallpaper, count, order) ==
    DictSet(DictSet(DictSet(DictSet(state,
        "current_index", next_index),
        "last_wallpaper", next_wallpaper),
        "image_count", count),
        "order", order)

(***************************************************************************)
(* Rotation                                                                *)
(***************************************************************************)
\* The order arguments callers pass; "shuffle" stands for any other string.
OrderArgs == {"sequential", "random", "shuffle"}

valid_orders == {"sequential", "random"}

\* Faulty variant: the folder-contents check is left out.
effective_index_nodrift(state, n) == Get(state, "current_index", -1)

\* Faulty variant: the folder-contents check only notices a listing that
\* has become shorter.
effective_index_shrunk(state, n) ==
    IF n < Get(state, "image_count", 0) THEN -1
    ELSE Get(state, "current_index", -1)

\* current_index after the folder-contents check
effective_index(state, n) ==
    IF n # Get(state, "image_count", 0) THEN -1
    ELSE Get(state, "current_index", -1)

\* Faulty variant: the current index stays among the candidates.
available_indices_all(n, current_index) == 0..(n - 1)

\* Faulty variant: the index is wrapped into the listing before it is
\* excluded, so an unset index (-1) excludes the last image.
available_indices_wrapped(n, current_index) ==
    {i \in 0..(n - 1) : i # current_index % n}

available_indices(n, current_index) ==
    {i \in 0..(n - 1) : i # current_index}

\* Faulty variant: the sequential branch forgets to advance.
next_indices_noadvance(order, n, current_index) ==
    IF order = "random"
    THEN IF n > 1 THEN available_indices(n, current_index) ELSE {0}
    ELSE {current_index % n}

\* Faulty variant: the sequential branch advances by two.
next_indices_skip(order, n, current_index) ==
    IF order = "random"
    THEN IF n > 1 THEN available_indices(n, current_index) ELSE {0}
    ELSE {(current_index + 2) % n}

\* The indices the order-specific branch can produce.
next_indices(order, n, current_index) ==
    IF order = "random"
    THEN IF n > 1 THEN available_indices(n, current_index) ELSE {0}
    ELSE {(current_index + 1) % n}

\* One call of get_next_wallpaper on folder dir and state file file, where
\* random.choice picks pick and save_state ends in outcome.
get_next_wallpaper(dir, file, order, pick, outcome) ==
    LET image_files == get_image_files(iterdir(dir, file))
        n == Len(image_files)
        loaded == load_state(file)
        state == loaded.value
    IN  IF n = 0
        THEN [ret |-> None_, index |-> -1, n |-> 0, raised |-> "none",
              save |-> "none", file |-> file]
        ELSE IF loaded.raised # "none"
        THEN [ret |-> None_, index |-> -1, n |-> n, raised |-> loaded.raised,
              save |-> "none", file |-> file]
        ELSE LET next_wallpaper == image_files[pick + 1]
                 new_state == Update(state, pick, next_wallpaper, n, order)
             IN [ret |-> next_wallpaper, index |-> pick, n |-> n,
                 raised |-> "none", save |-> outcome,
                 file |-> save_state(file, new_state, outcome)]

\* The picks get_next_wallpaper can make in this state.
Picks(dir, file, order) ==
    LET n == Len(get_image_files(iterdir(dir, file)))
        loaded == load_state(file)
    IN  IF n = 0 \/ loaded.raised # "none" THEN {0}
        ELSE next_indices(order, n, effective_index(loaded.value, n))

(***************************************************************************)
(* Order, reset and status                                                 *)
(***************************************************************************)
\* Faulty variant: the order is stored before it is validated.
set_order_late_check(file, order, outcome) ==
    LET loaded == load_state(file)
    IN  [raised |-> IF order \notin valid_orders THEN "ValueError" ELSE "none",
         save |-> outcome,
         file |-> save_state(file,
                      DictSet(loaded.value, "order", order), outcome)]

\* One call of set_order.
set_order(file, order, outcome) ==
    IF order \notin valid_orders
    THEN [raised |-> "ValueError", save |-> "none", file |-> file]
    ELSE LET loaded == load_state(file)
         IN  IF loaded.raised # "none"
             THEN [raised |-> loaded.raised, save |-> "none", file |-> file]
             ELSE [raised |-> "none", save |-> outcome,
                   file |-> save_state(file,
                                DictSet(loaded.value, "order", order), outcome)]

\* Faulty variant: the reset writes index 0 instead of -1.
reset_rotation_zero(file, outcome) ==
    LET loaded == load_state(file)
    IN  IF loaded.raised # "none"
        THEN [raised |-> loaded.raised, save |-> "none", file |-> file]
        ELSE [raised |-> "none", save |-> outcome,
              file |-> save_state(file,
                           DictSet(loaded.value, "current_index", 0), outcome)]

\* One call of reset_rotation.
reset_rotation(file, outcome) ==
    LET loaded == load_state(file)
    IN  IF loaded.raised # "none"
        THEN [raised |-> loaded.raised, save |-> "none", file |-> file]
        ELSE [raised |-> "none", save |-> outcome,
              file |-> save_state(file,
                           DictSet(loaded.value, "current_index", -1), outcome)]

\* Faulty variant: the range check has no lower bound, so an index of -1
\* selects the last image, as a negative subscript does.
get_status_no_lower_bound(dir, file) ==
    LET image_files == get_image_files(iterdir(dir, file))
        loaded == load_state(file)
        state == loaded.value
        index == Get(state, "current_index", -1)
    IN  IF loaded.raised # "none"
        THEN [raised |-> loaded.raised, total_images |-> Len(image_files),
              current_index |-> -1, current_wallpaper |-> None_,
              order |-> "-"]
        ELSE [raised |-> "none",
              total_images |-> Len(image_files),
              current_index |-> index,
              current_wallpaper |->
                  IF index < Len(image_files) /\ Len(image_files) > 0
                  THEN IF index >= 0
                       THEN image_files[index + 1]
                       ELSE image_files[Len(image_files)]
                  ELSE None_,
              order |-> Get(state, "order", "sequential")]

\* One call of get_status; the wallpaper's name stands for the entry.
get_status(dir, file) ==
    LET image_files == get_image_files(iterdir(dir, file))
        loaded == load_state(file)
        state == loaded.value
        index == Get(state, "current_index", -1)
    IN  IF loaded.raised # "none"
        THEN [raised |-> loaded.raised, total_images |-> Len(image_files),
              current_index |-> -1, current_wallpaper |-> None_,
              order |-> "-"]
        ELSE [raised |-> "none",
              total_images |-> Len(image_files),
              current_index |-> index,
              current_wallpaper |->
                  IF 0 <= index /\ index < Len(image_files)
                  THEN image_files[index + 1] ELSE None_,
              order |-> Get(state, "order", "sequential")]

(***************************************************************************)
(* The wallpaper applier                                                   *)
(***************************************************************************)
Markers == {"SUCCESS", "MODULE_NOT_FOUND", "COMMAND_NOT_FOUND", ""}

\* How subprocess.run of the PowerShell helper ends: it completes with a
\* return code and the marker found in its output, it exceeds the timeout,
\* or it raises another exception (no powershell executable, for one).
PsOutcomes ==
    {[kind |-> "completed", returncode |-> rc, stdout |-> m] :
        rc \in {0, 1}, m \in Markers}
    \cup {[kind |-> k, returncode |-> 0, stdout |-> ""] :
            k \in {"TimeoutExpired", "Exception"}}

\* How the SystemParametersInfoW call ends: it returns a result, or the call
\* raises (no ctypes.windll, for one).
SpiOutcomes ==
    {[kind |-> "returned", result |-> r] : r \in {0, 1}}
    \cup {[kind |-> "raised", result |-> 0]}

_set_wallpaper_all_desktops_powershell(ps) ==
    IF ps.kind = "TimeoutExpired" THEN FALSE
    ELSE IF ps.kind = "Exception" THEN FALSE
    ELSE IF ps.returncode = 0 /\ ps.stdout = "SUCCESS" THEN TRUE
    ELSE IF ps.stdout = "MODULE_NOT_FOUND" THEN FALSE
    ELSE IF ps.stdout = "COMMAND_NOT_FOUND" THEN FALSE
    ELSE FALSE

\* Faulty variant: a failed first tier ends the call.
set_wallpaper_no_fallback(ps, spi) ==
    IF _set_wallpaper_all_desktops_powershell(ps)
    THEN [result |-> TRUE, attempts |-> <<"tier1">>, raised |-> "none"]
    ELSE [result |-> FALSE, attempts |-> <<"tier1">>, raised |-> "none"]

\* Faulty variant: an exception of the native call escapes.
set_wallpaper_uncaught(ps, spi) ==
    IF _set_wallpaper_all_desktops_powershell(ps)
    THEN [result |-> TRUE, attempts |-> <<"tier1">>, raised |-> "none"]
    ELSE IF spi.kind = "raised"
    THEN [result |-> FALSE, attempts |-> <<"tier1", "tier2">>,
          raised |-> "Exception"]
    ELSE [result |-> spi.result # 0, attempts |-> <<"tier1", "tier2">>,
          raised |-> "none"]

\* One call of set_wallpaper: its result and the tiers it attempted, in order.
set_wallpaper(ps, spi) ==
    IF _set_wallpaper_all_desktops_powershell(ps)
    THEN [result |-> TRUE, attempts |-> <<"tier1">>, raised |-> "none"]
    ELSE IF spi.kind = "raised"
    THEN [result |-> FALSE, attempts |-> <<"tier1", "tier2">>,
          raised |-> "none"]
    ELSE [result |-> spi.result # 0, attempts |-> <<"tier1", "tier2">>,
          raised |-> "none"]

(***************************************************************************)
(* Observation of the calls (history, not program state): last is the      *)
(* call that produced the current state, prev the call before it (kept by  *)
(* the state manager's own operations only).  A change of the folder       *)
(* forgets both.                                                           *)
(***************************************************************************)
NoCall ==
    [op |-> "none", order |-> "-", save |-> "none",
     n |-> 0, index |-> -1, ret |-> None_, raised |-> "none"]

Summary(c) == [op |-> c.op, order |-> c.order, save |-> c.save]

\* The applier's last call: what the helper did, the tiers attempted, the
\* result.
NotApplied ==
    [called |-> FALSE,
     ps |-> [kind |-> "-", returncode |-> 0, stdout |-> ""],
     spi |-> [kind |-> "-", result |-> 0],
     attempts |-> <<>>, result |-> FALSE, raised |-> "none"]

\* spi is how the native call ended, when the call was made.
Applied(ps, spi, a) ==
    [called |-> TRUE, ps |-> ps,
     spi |-> IF Len(a.attempts) = 2 THEN spi ELSE NotApplied.spi,
     attempts |-> a.attempts, result |-> a.result, raised |-> a.raised]

\* The processes that may run get_next_wallpaper at the same time, and what
\* each holds between its load_state and its save_state: the state file as
\* it read it, the order it was called with; and, once it has returned, the
\* index and image it selected, how its save ended and whether the state
\* file had been rewritten since it read it.
Procs == {"p1", "p2"}

IdleProc ==
    [pc |-> "idle", file |-> Missing, order |-> "-", index |-> -1,
     ret |-> None_, save |-> "none", stale |-> FALSE]

\* What a direct call of load_state returned, before any such call.
NotLoaded == [raised |-> "none", value |-> default_state]

Init ==
    /\ folder \in SUBSET Entries
    /\ state_file = Missing
    /\ last = NoCall
    /\ prev = Summary(NoCall)
    /\ run = 0
    /\ applier = NotApplied
    /\ load_result = NotLoaded
    /\ procs = [p \in Procs |-> IdleProc]

GetNextWallpaper ==
    \E order \in OrderArgs, outcome \in SaveOutcomes :
      \E pick \in Picks(folder, state_file, order) :
      \E r \in {get_next_wallpaper(folder, state_file, order, pick, outcome)} :
            /\ state_file' = r.file
            /\ last' = [op |-> "get_next_wallpaper", order |-> order,
                        save |-> r.save, n |-> r.n, index |-> r.index,
                        ret |-> r.ret, raised |-> r.raised]
            /\ prev' = Summary(last)
            /\ run' = IF /\ run >= 0
                         /\ run < MaxRun
                         /\ order = "sequential"
                         /\ r.save = "ok"
                      THEN run + 1
                      ELSE -1
            /\ UNCHANGED <<folder, applier, load_result, procs>>

SetOrder ==
    \E order \in OrderArgs, outcome \in SaveOutcomes :
      \E r \in {set_order(state_file, order, outcome)} :
            /\ state_file' = r.file
            /\ last' = [NoCall EXCEPT !.op = "set_order", !.order = order,
                                      !.save = r.save, !.raised = r.raised]
            /\ prev' = Summary(last)
            /\ run' = -1
            /\ UNCHANGED <<folder, applier, load_result, procs>>

ResetRotation ==
    \E outcome \in SaveOutcomes :
      \E r \in {reset_rotation(state_file, outcome)} :
            /\ state_file' = r.file
            /\ last' = [NoCall EXCEPT !.op = "reset_rotation",
                                      !.save = r.save, !.raised = r.raised]
            /\ prev' = Summary(last)
            /\ run' = -1
            /\ UNCHANGED <<folder, applier, load_result, procs>>

GetStatus ==
    \E r \in {get_status(folder, state_file)} :
        /\ last' = [op |-> "get_status", order |-> r.order, save |-> "none",
                    n |-> r.total_images, index |-> r.current_index,
                    ret |-> r.current_wallpaper, raised |-> r.raised]
        /\ prev' = Summary(last)
        /\ run' = -1
        /\ UNCHANGED <<folder, state_file, applier, load_result, procs>>

\* Every way one call of set_wallpaper can go, as the applier shows it.
ApplyCalls ==
    {Applied(ps, spi, set_wallpaper(ps, spi)) :
        ps \in PsOutcomes, spi \in SpiOutcomes}

\* set_wallpaper called on its own; the path plays no part in what it does.
SetWallpaper ==
    \E a \in ApplyCalls :
        /\ applier' = a
        /\ last' = [NoCall EXCEPT !.op = "set_wallpaper"]
        /\ run' = -1
        /\ UNCHANGED <<folder, state_file, prev, load_result, procs>>

\* Faulty variant: the new state is written only once the wallpaper has
\* been applied.
RotateWallpaper_save_after_apply ==
    \E order \in OrderArgs, outcome \in SaveOutcomes :
      \E pick \in Picks(folder, state_file, order) :
      \E r \in {get_next_wallpaper(folder, state_file, order, pick, outcome)} :
      \E a \in (IF r.ret = None_ THEN {NotApplied} ELSE ApplyCalls) :
        /\ state_file' = IF a.called /\ ~a.result THEN state_file ELSE r.file
        /\ applier' = a
        /\ last' = [op |-> "rotate_wallpaper", order |-> order,
                    save |-> r.save, n |-> r.n, index |-> r.index,
                    ret |-> r.ret, raised |-> r.raised]
        /\ run' = -1
        /\ UNCHANGED <<folder, prev, load_result, procs>>

\* rotate_wallpaper: get_next_wallpaper, then set_wallpaper on what it
\* returned, if anything.
RotateWallpaper ==
    \E order \in OrderArgs, outcome \in SaveOutcomes :
      \E pick \in Picks(folder, state_file, order) :
      \E r \in {get_next_wallpaper(folder, state_file, order, pick, outcome)} :
      \E a \in (IF r.ret = None_ THEN {NotApplied} ELSE ApplyCalls) :
        /\ state_file' = r.file
        /\ applier' = a
        /\ last' = [op |-> "rotate_wallpaper", order |-> order,
                    save |-> r.save, n |-> r.n, index |-> r.index,
                    ret |-> r.ret, raised |-> r.raised]
        /\ run' = -1
        /\ UNCHANGED <<folder, prev, load_result, procs>>

\* The folder gains or loses one entry between two calls.
FolderChange ==
    /\ \E e \in Entries :
          folder' = IF e \in folder THEN folder \ {e} ELSE folder \cup {e}
    /\ last' = NoCall
    /\ prev' = Summary(NoCall)
    /\ run' = -1
    /\ applier' = NotApplied
    /\ UNCHANGED <<state_file, load_result, procs>>

Next ==
    \/ GetNextWallpaper
    \/ SetOrder
    \/ ResetRotation
    \/ GetStatus
    \/ FolderChange

Spec == Init /\ [][Next]_vars

\* Full rotations and the applier.
NextApply ==
    \/ RotateWallpaper
    \/ SetWallpaper

SpecApply == Init /\ [][NextApply]_vars

(***************************************************************************)
(* load_state on its own, over whatever may be found at the state file's   *)
(* path.                                                                   *)
(***************************************************************************)
StateDicts ==
    [current_index : -1..(MaxEntries - 1),
     last_wallpaper : {None_} \cup Entries,
     image_count : 0..MaxEntries,
     order : valid_orders]

FileInputs ==
    {Missing, InvalidJson, Unreadable, Undecodable}
    \cup {JsonObject(d) : d \in StateDicts}

InitLoad ==
    /\ folder = {}
    /\ state_file \in FileInputs
    /\ last = NoCall
    /\ prev = Summary(NoCall)
    /\ run = -1
    /\ applier = NotApplied
    /\ load_result = NotLoaded
    /\ procs = [p \in Procs |-> IdleProc]

LoadState ==
    /\ load_result' = load_state(state_file)
    /\ last' = [NoCall EXCEPT !.op = "load_state"]
    /\ prev' = Summary(last)
    /\ UNCHANGED <<folder, state_file, run, applier, procs>>

SpecLoad == InitLoad /\ [][LoadState]_vars

(***************************************************************************)
(* Two processes rotating at the same time: nothing locks the state file   *)
(* between a process's load_state and its save_state.                      *)
(***************************************************************************)
\* get_next_wallpaper up to and including load_state (or up to its return,
\* when the folder holds no image).
RaceLoad(p) ==
    /\ procs[p].pc = "idle"
    /\ \E order \in OrderArgs :
         procs' = [procs EXCEPT ![p] =
            IF get_image_files(iterdir(folder, state_file)) = <<>>
            THEN [IdleProc EXCEPT !.pc = "done", !.order = order]
            ELSE [IdleProc EXCEPT !.pc = "loaded", !.order = order,
                                  !.file = state_file]]
    /\ UNCHANGED <<folder, state_file, last, prev, run, applier, load_result>>

\* The rest of get_next_wallpaper: the index computed from the state read
\* earlier, then save_state on the file as it is now.
RaceSave(p) ==
    /\ procs[p].pc = "loaded"
    /\ \E outcome \in SaveOutcomes :
       \E pick \in Picks(folder, procs[p].file, procs[p].order) :
       \E r \in {get_next_wallpaper(folder, procs[p].file, procs[p].order,
                                    pick, "ok")} :
         /\ state_file' = save_state(state_file, r.file.doc, outcome)
         /\ procs' = [procs EXCEPT ![p] =
                [pc |-> "done", file |-> procs[p].file,
                 order |-> procs[p].order, index |-> r.index,
                 ret |-> r.ret, save |-> outcome,
                 stale |-> state_file # procs[p].file]]
    /\ UNCHANGED <<folder, last, prev, run, applier, load_result>>

NextRace == \E p \in Procs : RaceLoad(p) \/ RaceSave(p)

\* The state files earlier rotations over the folder's images leave behind,
\* and the missing file of a first run.
RaceFiles(dir) ==
    LET image_files == get_image_files(iterdir(dir, Missing))
    IN  {Missing} \cup
        {JsonObject(Update(default_state, i, image_files[i + 1],
                           Len(image_files), order)) :
            i \in 0..(Len(image_files) - 1), order \in valid_orders}

\* Each process runs get_next_wallpaper once, over a folder that stays as
\* it is.
InitRace ==
    /\ folder \in SUBSET Entries
    /\ state_file \in RaceFiles(folder)
    /\ last = NoCall
    /\ prev = Summary(NoCall)
    /\ run = -1
    /\ applier = NotApplied
    /\ load_result = NotLoaded
    /\ procs = [p \in Procs |-> IdleProc]

SpecRace == InitRace /\ [][NextRace]_vars

(***************************************************************************)
(* Verified properties                                                     *)
(***************************************************************************)
\* The image listing of the current folder.  The state file is never part
\* of it, so it is the listing every call since the last folder change saw.
Listing == SortedSeq(folder)

IsRotation(c) == c.op = "get_next_wallpaper" /\ c.raised = "none"

\* C1: starting from no state file, with an unchanged folder of N >= 1
\* images and every save succeeding, the k-th consecutive sequential
\* rotation selects index (k-1) mod N and returns that image of the listing.
C1_SequentialCycle ==
    run >= 1 =>
        /\ IsRotation(last)
        /\ last.n = Len(Listing)
        /\ last.n >= 1
        /\ last.index = (run - 1) % last.n
        /\ last.ret = Listing[last.index + 1]

\* The (N+1)-th call of a run over N >= 2 images has wrapped to index 0.
C1_Witness ==
    /\ run = Len(Listing) + 1
    /\ Len(Listing) >= 2
    /\ last.index = 0

C3_DriftRestarts ==
    [][(/\ IsRotation(last') /\ last'.order = "sequential"
        /\ state_file.kind = "json"
        /\ Len(Listing') >= 1
        /\ Len(Listing') # state_file.doc.image_count)
       => (last'.index = 0 /\ last'.ret = Listing'[1])]_vars

\* A sequential rotation selected index 0 although the state it loaded (still
\* on disk, the save having failed before the file was touched) records
\* another count and an index past 0.
C3_Witness ==
    /\ IsRotation(last) /\ last.order = "sequential"
    /\ last.save = "open_failed"
    /\ state_file.kind = "json"
    /\ state_file.doc.image_count # last.n
    /\ state_file.doc.current_index >= 1
    /\ last.n >= 2
    /\ last.index = 0

C5_IndexInRange ==
    state_file.kind = "json" =>
        \/ state_file.doc.current_index = -1
        \/ /\ 0 <= state_file.doc.current_index
           /\ state_file.doc.current_index < state_file.doc.image_count

\* The last index of a listing of at least 2 images is persisted.
C5_Witness ==
    /\ state_file.kind = "json"
    /\ state_file.doc.image_count >= 2
    /\ state_file.doc.current_index = state_file.doc.image_count - 1

\* C6: load_state never raises, and for a missing, unreadable or malformed
\* state file it returns the default state.
C6_LoadTotal ==
    last.op = "load_state" =>
        /\ load_result.raised = "none"
        /\ state_file.kind \in {"missing", "unreadable", "invalid_json",
                                "undecodable"}
              => load_result.value = default_state

\* C7: set_order with an order outside {sequential, random} raises
\* ValueError and leaves the state file as it was, existing or not.
C7_InvalidOrderRejected ==
    [][(last'.op = "set_order" /\ last'.order \notin valid_orders)
       => (last'.raised = "ValueError" /\ state_file' = state_file)]_vars

\* An invalid order was rejected while a state with a set index is on disk.
C7_Witness ==
    /\ last.op = "set_order"
    /\ last.order = "shuffle"
    /\ last.raised = "ValueError"
    /\ state_file.kind = "json"
    /\ state_file.doc.current_index >= 0

\* C8: with no image in the folder a rotation returns nothing and leaves the
\* state file as it was, for any order argument.
C8_EmptyListingNoMutation ==
    [][(last'.op = "get_next_wallpaper" /\ folder = {})
       => (/\ last'.ret = None_
           /\ last'.raised = "none"
           /\ state_file' = state_file)]_vars

\* A rotation over an emptied folder returned nothing while a state with a
\* set index is on disk.
C8_Witness ==
    /\ last.op = "get_next_wallpaper"
    /\ folder = {}
    /\ last.ret = None_
    /\ state_file.kind = "json"
    /\ state_file.doc.current_index >= 0

\* C9: a rotation over a non-empty listing whose save fails still returns
\* the selected image without raising, and the persisted state (what
\* load_state reads) is what it was before the call.
C9_FailedSaveKeepsState ==
    [][(/\ last'.op = "get_next_wallpaper"
        /\ Len(Listing') >= 1
        /\ last'.save \in {"open_failed", "write_failed"})
       => (/\ last'.raised = "none"
           /\ last'.ret = Listing'[last'.index + 1]
           /\ load_state(state_file') = load_state(state_file))]_vars

\* C10: every set_wallpaper call attempts tier 1 exactly once and first, and
\* attempts tier 2 exactly once when tier 1 did not succeed and never when it
\* did.
Tier1Succeeded(ps) ==
    ps.kind = "completed" /\ ps.returncode = 0 /\ ps.stdout = "SUCCESS"

Attempts(tier) ==
    Cardinality({i \in 1..Len(applier.attempts) : applier.attempts[i] = tier})

Tier2Succeeded(spi) == spi.kind = "returned" /\ spi.result # 0

C11_ApplyResult ==
    applier.called =>
        /\ applier.raised = "none"
        /\ applier.result =
              (\/ Tier1Succeeded(applier.ps)
               \/ (~Tier1Succeeded(applier.ps) /\ Tier2Succeeded(applier.spi)))

\* The helper timed out, the native call raised, and the call returned false.
C11_Witness ==
    /\ applier.called
    /\ applier.ps.kind = "TimeoutExpired"
    /\ applier.spi.kind = "raised"
    /\ applier.result = FALSE
    /\ applier.raised = "none"

\* C12: two processes that both read the same state file before either
\* wrote it and both complete a saved sequential rotation select the same
\* index and image, and the state file ends one step past the index they
\* read: one of the two updates is lost.
ReadIndex(file, n) ==
    IF file.kind = "json" /\ file.doc.image_count = n
    THEN file.doc.current_index
    ELSE -1

SavedSequential(p) ==
    /\ procs[p].pc = "done"
    /\ procs[p].order = "sequential"
    /\ procs[p].save = "ok"

C12_LostUpdate ==
    \A p, q \in Procs :
        (/\ p # q
         /\ SavedSequential(p) /\ SavedSequential(q)
         /\ procs[p].file = procs[q].file)
        => /\ procs[p].index = procs[q].index
           /\ procs[p].ret = procs[q].ret
           /\ procs[p].index =
                 (ReadIndex(procs[p].file, Len(Listing)) + 1) % Len(Listing)
           /\ state_file.kind = "json"
           /\ state_file.doc.current_index = procs[p].index

\* Both processes read index 0 of 3 images, one saved over what the other
\* had written in between, and both returned the image at index 1.
C12_Witness ==
    /\ SavedSequential("p1") /\ SavedSequential("p2")
    /\ procs["p1"].file = procs["p2"].file
    /\ procs["p1"].stale \/ procs["p2"].stale
    /\ Len(Listing) = 3
    /\ ReadIndex(procs["p1"].file, 3) = 0
    /\ procs["p1"].index = 1 /\ procs["p2"].index = 1
    /\ procs["p1"].ret = procs["p2"].ret
    /\ state_file.doc.current_index = 1

\* C13: under sequential order and with the folder unchanged, the rotation
\* that follows a rotation whose state save failed returns the same image
\* as that rotation.
C13_FailedSaveRevisits ==
    [][(/\ IsRotation(last) /\ last.order = "sequential"
        /\ last.n >= 1
        /\ last.save \in {"open_failed", "write_failed"}
        /\ IsRotation(last') /\ last'.order = "sequential"
        /\ folder' = folder)
       => (/\ last'.index = last.index
           /\ last'.ret = last.ret)]_vars

\* C14: get_status reports the length of the live listing and the persisted
\* index and order, reports the image at the persisted index exactly when
\* that index is within the live listing and no image otherwise, and leaves
\* the state file as it was.
PersistedIndex ==
    IF state_file.kind = "json" THEN state_file.doc.current_index ELSE -1

PersistedOrder ==
    IF state_file.kind = "json" THEN state_file.doc.order ELSE "sequential"

C14_StatusReport ==
    [][last'.op = "get_status"
       => (/\ last'.raised = "none"
           /\ last'.n = Len(Listing')
           /\ last'.index = PersistedIndex
           /\ last'.order = PersistedOrder
           /\ last'.ret =
                 (IF 0 <= PersistedIndex /\ PersistedIndex < Len(Listing')
                  THEN Listing'[PersistedIndex + 1]
                  ELSE None_)
           /\ state_file' = state_file)]_vars

\* Images were removed after a rotation: the persisted index is past the
\* end of the live listing and get_status reports no current wallpaper.
C14_Witness ==
    /\ last.op = "get_status"
    /\ state_file.kind = "json"
    /\ Len(Listing) >= 1
    /\ state_file.doc.current_index >= Len(Listing)
    /\ last.index = state_file.doc.current_index
    /\ last.n = Len(Listing)
    /\ last.ret = None_

\* C15: after a rotation over a non-empty listing whose save succeeded, the
\* state file holds exactly the selected index, the returned image (the
\* listing's entry at that index), the length of the live listing and the
\* order argument of the call.
C15_PersistedAfterRotation ==
    (IsRotation(last) /\ last.ret # None_ /\ last.save = "ok")
    => /\ last.index \in 0..(Len(Listing) - 1)
       /\ last.ret = Listing[last.index + 1]
       /\ state_file =
             JsonObject([current_index |-> last.index,
                         last_wallpaper |-> last.ret,
                         image_count |-> Len(Listing),
                         order |-> last.order])

\* A random rotation over three images that selected the third and saved.
C15_Witness ==
    /\ IsRotation(last) /\ last.order = "random" /\ last.save = "ok"
    /\ Len(Listing) = 3
    /\ last.index = 2
    /\ state_file.kind = "json"
    /\ state_file.doc.current_index = 2
    /\ state_file.doc.image_count = 3
    /\ state_file.doc.order = "random"

\* C16: with more than one image, the indices a random rotation can select
\* are all indices of the listing except the persisted current_index when
\* the persisted image_count equals the live count and the index is set,
\* and all indices of the listing when the state file is missing or
\* unusable, the index is -1 or the counts differ.
RandomSelectable ==
    LET n == Len(Listing)
    IN  IF /\ state_file.kind = "json"
           /\ state_file.doc.image_count = n
           /\ state_file.doc.current_index # -1
        THEN (0..(n - 1)) \ {state_file.doc.current_index}
        ELSE 0..(n - 1)

C16_RandomCandidates ==
    Len(Listing) > 1 => Picks(folder, state_file, "random") = RandomSelectable

\* Just after a saved reset_rotation with the folder as the last rotation
\* left it: the image selected before the reset can be selected again.
C16_Witness ==
    /\ last.op = "reset_rotation" /\ last.save = "ok"
    /\ Len(Listing) > 1
    /\ state_file.kind = "json"
    /\ state_file.doc.current_index = -1
    /\ state_file.doc.image_count = Len(Listing)
    /\ \E i \in Picks(folder, state_file, "random") :
          Listing[i + 1] = state_file.doc.last_wallpaper

\* C17: reset_rotation leaves image_count, last_wallpaper and order of the
\* persisted state as they were loaded, and a valid set_order leaves
\* current_index, image_count and last_wallpaper as they were loaded.
PersistedField(file, key) == load_state(file).value[key]

ResetFrame ==
    (last'.op = "reset_rotation" /\ last'.raised = "none")
    => \A key \in {"image_count", "last_wallpaper", "order"} :
          PersistedField(state_file', key) = PersistedField(state_file, key)

SetOrderFrame ==
    (last'.op = "set_order" /\ last'.raised = "none")
    => \A key \in {"current_index", "image_count", "last_wallpaper"} :
          PersistedField(state_file', key) = PersistedField(state_file, key)

C17_FrameOfResetAndSetOrder == [][ResetFrame /\ SetOrderFrame]_vars

\* C18: whenever the state file holds a state, its order field is
\* "sequential" or "random", whatever order arguments get_next_wallpaper and
\* set_order were called with.
C18_PersistedOrderValid ==
    state_file.kind = "json" => state_file.doc.order \in valid_orders

\* C19: a sequential rotation restarts at index 0 exactly when the live
\* image count differs from the persisted image_count; when the counts are
\* equal it continues at (current_index + 1) mod N of the live listing,
\* whichever images the folder now holds.
C19_DriftByCountOnly ==
    [][(/\ IsRotation(last') /\ last'.order = "sequential"
        /\ Len(Listing') >= 1
        /\ state_file.kind = "json")
       => (/\ last'.index =
                 (IF state_file.doc.image_count = Len(Listing')
                  THEN (state_file.doc.current_index + 1) % Len(Listing')
                  ELSE 0)
           /\ last'.ret = Listing'[last'.index + 1])]_vars

\* The image selected last is no longer in the folder but the count is the
\* same, and the rotation went on to the next index instead of index 0 (the
\* state file still shows the state the rotation loaded, its save having
\* failed before the file was opened).
C19_Witness ==
    /\ IsRotation(last) /\ last.order = "sequential"
    /\ last.save = "open_failed"
    /\ state_file.kind = "json"
    /\ state_file.doc.image_count = Len(Listing)
    /\ state_file.doc.last_wallpaper \notin folder
    /\ last.index = state_file.doc.current_index + 1
    /\ last.index >= 1
    /\ last.ret = Listing[last.index + 1]

\* A full rotation selected an image and the applier returned false for it.
ApplyFailed ==
    /\ last.op = "rotate_wallpaper" /\ last.raised = "none"
    /\ last.ret # None_
    /\ applier.called /\ ~applier.result

\* The state file holds the index of the image that was not applied, and a
\* sequential full rotation that follows selects the index after it.
MovesPast ==
    /\ state_file.kind = "json"
    /\ state_file.doc.current_index = last.index
    /\ (/\ last'.op = "rotate_wallpaper" /\ last'.raised = "none"
        /\ last'.order = "sequential")
       => last'.index = (last.index + 1) % last.n

====
